---- MODULE Spec2Model ----
(***************************************************************************)
(* Model of the 2redbook content extractor: the link resolver              *)
(* (extract_url), the content extractor (get_content), the image persister *)
(* (download_image and the download loop) and the four entry points: the   *)
(* CLI main() of redbook_scraper.py and the POST /api/extract handlers of  *)
(* redbook_api.py, test_api.py and api/index.py.                           *)
(*                                                                         *)
(* Text is a sequence of characters (a non-ASCII character is written by    *)
(* its code point, "u5c0f"), so that the regular                            *)
(* expression, str.replace, the title sanitiser, os.path.splitext and the  *)
(* f-string file names are computed character by character.                *)
(***************************************************************************)
EXTENDS Integers, Sequences, FiniteSets, TLC

VARIABLES
    clock,   \* wall clock, in ticks (TicksPerSecond ticks to a second)
    dirs,    \* the directories that exist in the working directory
    files,   \* the files that exist: records [dir, name, data, by]
    wrote,   \* which run wrote into which directory: records [by, dir]
    nreq,    \* number of runs (CLI invocations and HTTP requests) so far
    last,    \* the latest run: its input, what the environment answered, its outcome
    call     \* frame of a direct call of a pure helper: [fn, arg, ret]

vars == <<clock, dirs, files, wrote, nreq, last, call>>

(***************************************************************************)
(* Bounds of the model.                                                    *)
(***************************************************************************)
MaxPieces == 3      \* pieces a share text is assembled from
MaxTitlePieces == 4 \* pieces an og:title content value is assembled from
MaxImages == 2      \* og:image meta elements on a page
MaxRuns == 2        \* CLI runs and HTTP requests in one behaviour
MaxClock == 2       \* last clock tick
TicksPerSecond == 2 \* resolution of the modelled clock within one second

(***************************************************************************)
(* Characters.                                                             *)
(***************************************************************************)
AsciiLetters ==
    {"a","b","c","d","e","f","g","h","i","j","k","l","m",
     "n","o","p","q","r","s","t","u","v","w","x","y","z",
     "A","B","C","D","E","F","G","H","I","J","K","L","M",
     "N","O","P","Q","R","S","T","U","V","W","X","Y","Z"}

AsciiDigits == {"0","1","2","3","4","5","6","7","8","9"}

\* Non-ASCII letters used by the model (str.isalnum() and \w hold of them).
UnicodeLetters == {"u5c0f","u7ea2","u4e66","u6807","u9898","u672a","u627e","u5230","u6b63","u6587","u590d"}

Whitespace == {" "}

\* The Python value None; no text equals it (texts hold characters).
None == <<"None">>

\* Python truthiness of an Optional[str]: None and '' are falsy.
Falsy(s) == s = None \/ s = <<>>

\* [a-zA-Z0-9/] of xhs_pattern
LinkChar(c) == c \in AsciiLetters \cup AsciiDigits \cup {"/"}

\* \w of a str pattern: Unicode letters and digits, and the underscore
WordChar(c) == c \in AsciiLetters \cup AsciiDigits \cup UnicodeLetters \cup {"_"}

\* str.isalnum() of one character
IsAlnum(c) == c \in AsciiLetters \cup AsciiDigits \cup UnicodeLetters

(***************************************************************************)
(* Sequence helpers.                                                       *)
(***************************************************************************)
\* text[i-1:i-1+Len(sub)] == sub  (1-based i)
MatchesAt(text, sub, i) ==
    /\ i >= 1
    /\ i + Len(sub) - 1 <= Len(text)
    /\ \A j \in 1..Len(sub) : text[i + j - 1] = sub[j]

\* sub in text
Contains(text, sub) == \E i \in 1..(Len(text) + 1) : MatchesAt(text, sub, i)

EndsWith(text, suf) == MatchesAt(text, suf, Len(text) - Len(suf) + 1)

Min(S) == CHOOSE x \in S : \A y \in S : x <= y
Max(S) == CHOOSE x \in S : \A y \in S : x >= y

RECURSIVE Concat(_)
Concat(ss) == IF ss = <<>> THEN <<>> ELSE Head(ss) \o Concat(Tail(ss))

\* str.strip() for the whitespace of the model
RECURSIVE LStrip(_)
LStrip(s) == IF s # <<>> /\ Head(s) \in Whitespace THEN LStrip(Tail(s)) ELSE s

RECURSIVE RStrip(_)
RStrip(s) ==
    IF s # <<>> /\ s[Len(s)] \in Whitespace THEN RStrip(SubSeq(s, 1, Len(s) - 1)) ELSE s

Strip(s) == RStrip(LStrip(s))

\* str(n) for n >= 0
RECURSIVE IntToStr(_)
IntToStr(n) ==
    LET d == <<"0","1","2","3","4","5","6","7","8","9">>[(n % 10) + 1]
    IN  IF n < 10 THEN <<d>> ELSE IntToStr(n \div 10) \o <<d>>

(***************************************************************************)
(* Link resolver: RedbookScraper.extract_url                               *)
(***************************************************************************)
\* 'http://xhslink.com/', the literal head of xhs_pattern
LinkHead == <<"h","t","t","p",":","/","/","x","h","s","l","i","n","k",".","c","o","m","/">>

\* 'xhslink.com', the marker the entry points look for
Marker == <<"x","h","s","l","i","n","k",".","c","o","m">>

\* \b between text[p] and text[p+1]: exactly one side is a word character
\* (outside the text counts as a non-word character).
WordBoundary(text, p) ==
    LET before == p >= 1 /\ p <= Len(text) /\ WordChar(text[p])
        after  == p + 1 >= 1 /\ p + 1 <= Len(text) /\ WordChar(text[p + 1])
    IN  before # after

\* The lengths k >= 1 for which [a-zA-Z0-9/]{k}\b matches right after the head at i.
RunLengths(text, i) ==
    LET first == i + Len(LinkHead)
    IN  {k \in 1..(Len(text) - first + 1) :
            /\ \A j \in first..(first + k - 1) : LinkChar(text[j])
            /\ WordBoundary(text, first + k - 1)}

\* Length of the run the greedy + settles on at i; 0 when the pattern fails at i.
MatchLenLazy(text, i) ==
    IF MatchesAt(text, LinkHead, i) /\ RunLengths(text, i) # {}
    THEN Min(RunLengths(text, i)) ELSE 0

MatchLen(text, i) ==
    IF MatchesAt(text, LinkHead, i) /\ RunLengths(text, i) # {}
    THEN Max(RunLengths(text, i)) ELSE 0

\* urls = re.findall(xhs_pattern, text); return urls[0] if urls else None
extract_url(text) ==
    LET starts == {i \in 1..Len(text) : MatchLen(text, i) > 0}
    IN  IF starts = {} THEN None
        ELSE LET i == Min(starts)
             IN  SubSeq(text, i, i + Len(LinkHead) + MatchLen(text, i) - 1)

\* url = scraper.extract_url(text) if 'xhslink.com' in text else text
resolve(text) == IF Contains(text, Marker) THEN extract_url(text) ELSE text

(***************************************************************************)
(* Title extraction and sanitising.                                        *)
(***************************************************************************)
\* ' - \u5c0f\u7ea2\u4e66', the site's branding suffix
Brand == <<" ","-"," ","u5c0f","u7ea2","u4e66">>

\* the sentinel title (u6807 u9898 u672a u627e u5230)
TitleNotFound == <<"u6807","u9898","u672a","u627e","u5230">>

\* the sentinel body (u6b63 u6587 u672a u627e u5230)
BodyNotFound == <<"u6b63","u6587","u672a","u627e","u5230">>

\* str.replace(old, ''): every non-overlapping occurrence, left to right
RECURSIVE Remove(_, _)
Remove(s, old) ==
    IF Len(s) < Len(old) THEN s
    ELSE IF MatchesAt(s, old, 1) THEN Remove(SubSeq(s, Len(old) + 1, Len(s)), old)
    ELSE <<Head(s)>> \o Remove(Tail(s), old)

\* a removal of the trailing occurrence only
RemoveSuffix(s, old) ==
    IF EndsWith(s, old) THEN SubSeq(s, 1, Len(s) - Len(old)) ELSE s

\* title_meta['content'].replace(Brand, '')
title_text(content) == Remove(content, Brand)

\* "".join(x for x in title if x.isalnum() or x in (' ', '-', '_'))
safe_title(title) == SelectSeq(title, LAMBDA x : IsAlnum(x) \/ x \in {" ", "-", "_"})

\* s[:n]
Truncate(s, n) == SubSeq(s, 1, IF Len(s) < n THEN Len(s) ELSE n)

(***************************************************************************)
(* File names: urlparse(url).path, os.path.splitext, the f-strings.        *)
(***************************************************************************)
\* first index >= from of a character of cs, Len(s) + 1 when there is none
FirstOf(s, cs, from) ==
    Min({i \in from..Len(s) : s[i] \in cs} \cup {Len(s) + 1})

\* last index of character c, 0 when there is none (str.rfind, 1-based)
LastOf(s, c) == Max({i \in 1..Len(s) : s[i] = c} \cup {0})

\* urlparse(url).path: what follows scheme and netloc, up to the query or fragment
url_path(url) ==
    LET colon == FirstOf(url, {":"}, 1)
        scheme == /\ colon > 1
                  /\ colon <= Len(url)
                  /\ url[1] \in AsciiLetters
                  /\ \A j \in 1..(colon - 1) :
                        url[j] \in AsciiLetters \cup AsciiDigits \cup {"+", "-", "."}
        s == IF scheme THEN colon + 1 ELSE 1
        pathStart == IF MatchesAt(url, <<"/", "/">>, s)
                     THEN FirstOf(url, {"/", "?", "#"}, s + 2) ELSE s
        pathEnd == FirstOf(url, {"?", "#"}, pathStart) - 1
    IN  SubSeq(url, pathStart, pathEnd)

\* os.path.splitext(p)[1]: from the last dot of the last path component, unless
\* that component has only dots before it
splitext_ext(p) ==
    LET sepIndex == LastOf(p, "/")
        dotIndex == LastOf(p, ".")
    IN  IF dotIndex > sepIndex /\ \E j \in (sepIndex + 1)..(dotIndex - 1) : p[j] # "."
        THEN SubSeq(p, dotIndex, Len(p)) ELSE <<>>

\* ext = os.path.splitext(urlparse(url).path)[1]; if not ext: ext = '.jpg'
image_ext(url) ==
    LET ext == splitext_ext(url_path(url))
    IN  IF ext = <<>> THEN <<".", "j", "p", "g">> ELSE ext

\* f'image_{index}{ext}'
image_filename(url, index) ==
    <<"i", "m", "a", "g", "e", "_">> \o IntToStr(index) \o image_ext(url)

\* 'info.json'
InfoJson == <<"i", "n", "f", "o", ".", "j", "s", "o", "n">>

\* os.path.join(a, b) for a relative b
path_join(a, b) == IF a = <<>> \/ a[Len(a)] = "/" THEN a \o b ELSE a \o <<"/">> \o b

\* the directory a path names: a trailing separator does not change it
DirKey(path) ==
    IF path # <<>> /\ path[Len(path)] = "/" THEN SubSeq(path, 1, Len(path) - 1) ELSE path

\* os.makedirs(path, exist_ok=True): the directory and its missing ancestors
makedirs(ds, path) ==
    ds \cup (({DirKey(SubSeq(path, 1, i)) : i \in {j \in 1..Len(path) : path[j] = "/"}}
              \cup {DirKey(path)}) \ {<<>>})

\* datetime.now().strftime('%Y%m%d_%H%M%S'): the clock cut to whole seconds
strftime(now) == IntToStr(now \div TicksPerSecond)

\* "redbook_content_"
ContentPrefix ==
    <<"r","e","d","b","o","o","k","_","c","o","n","t","e","n","t","_">>

\* safe_title[:30] in the services, safe_title[:50] in the CLI
ApiTitleLen == 30
CliTitleLen == 50

\* open(path, 'w') and write: the file is created or replaced
WriteFile(fs, dir, name, data, by) ==
    {f \in fs : ~(f.dir = DirKey(dir) /\ f.name = name)}
        \cup {[dir |-> DirKey(dir), name |-> name, data |-> data, by |-> by]}

(***************************************************************************)
(* Direct calls of the pure helpers, on inputs assembled from pieces.      *)
(***************************************************************************)
\* 'https://xhslink.com/', a short link the pattern does not cover
SecureHead ==
    <<"h","t","t","p","s",":","/","/","x","h","s","l","i","n","k",".","c","o","m","/">>

TextPieces ==
    {LinkHead, SecureHead, Marker, <<"a">>, <<"/">>, <<"_">>, <<" ">>, <<"u590d">>}

TitlePieces == {Brand, <<"a">>, <<" ","-"," ","u5c0f">>, <<"u7ea2","u4e66">>}

\* every concatenation of at most n pieces
Assembled(pieces, n) ==
    {Concat(ps) : ps \in UNION {[1..k -> pieces] : k \in 0..n}}

Texts == Assembled(TextPieces, MaxPieces)

TitleContents == Assembled(TitlePieces, MaxTitlePieces)

\* the frame of a call that has not returned yet
Pending == <<"Pending">>

NoCall == [fn |-> "none", arg |-> <<>>, ret |-> Pending]

\* Python None where a list is expected
NoneList == <<None>>

\* a meta element without a content attribute
NoAttr == <<"NoAttr">>

NoResult == [title |-> None, content |-> None, images |-> <<>>, url |-> None,
             local_images |-> NoneList]

NoPage == [title_meta |-> [present |-> FALSE, content |-> NoAttr],
           detail_desc |-> [present |-> FALSE, text |-> <<>>],
           img_metas |-> <<>>]

\* no run in progress or just finished
NoRun == [variant |-> "none", text |-> <<>>, save_images |-> FALSE,
          fetch |-> "none", page |-> NoPage, outs |-> <<>>, faults |-> {},
          outcome |-> "none", status |-> 0, fetched |-> FALSE,
          made |-> {}, folder |-> None, attempts |-> <<>>, info_written |-> FALSE,
          result |-> NoResult]

Quiet ==
    /\ clock = 0
    /\ dirs = {}
    /\ files = {}
    /\ wrote = {}
    /\ nreq = 0
    /\ last = NoRun

InitResolve ==
    /\ Quiet
    /\ \E t \in Texts : call = [fn |-> "resolve", arg |-> t, ret |-> Pending]

\* the resolution line of the entry points, applied to call.arg
CallResolve ==
    /\ call.fn = "resolve"
    /\ call.ret = Pending
    /\ call' = [call EXCEPT !.ret = resolve(call.arg)]
    /\ UNCHANGED <<clock, dirs, files, wrote, nreq, last>>

NextResolve == CallResolve

SpecResolve == InitResolve /\ [][NextResolve]_vars

InitTitle ==
    /\ Quiet
    /\ \E c \in TitleContents : call = [fn |-> "title_text", arg |-> c, ret |-> Pending]

\* the title expression of get_content, applied to the content value call.arg
CallTitleText ==
    /\ call.fn = "title_text"
    /\ call.ret = Pending
    /\ call' = [call EXCEPT !.ret = title_text(call.arg)]
    /\ UNCHANGED <<clock, dirs, files, wrote, nreq, last>>

NextTitle == CallTitleText

SpecTitle == InitTitle /\ [][NextTitle]_vars

(***************************************************************************)
(* C4: the short link that resolve returns.                                *)
(***************************************************************************)
\* where a well-formed short link starts: the head, then at least one link character
LinkStarts(text) ==
    {i \in 1..Len(text) :
        /\ MatchesAt(text, LinkHead, i)
        /\ i + Len(LinkHead) <= Len(text)
        /\ LinkChar(text[i + Len(LinkHead)])}

\* the last position of the whole run of link characters of the link starting at i
LinkEnd(text, i) ==
    Max({e \in (i + Len(LinkHead))..Len(text) :
            \A j \in (i + Len(LinkHead))..e : LinkChar(text[j])})

\* the first well-formed short link of the text, whole
FirstLink(text) ==
    LET i == Min(LinkStarts(text)) IN SubSeq(text, i, LinkEnd(text, i))

Resolved == call.fn = "resolve" /\ call.ret # Pending

FirstLinkEndsAtBoundary(text) ==
    LET i == Min(LinkStarts(text))
        e == LinkEnd(text, i)
    IN  /\ text[e] # "/"
        /\ e < Len(text) => ~WordChar(text[e + 1])

C9_OnlyTrailingBrandRemoved ==
    (call.fn = "title_text" /\ call.ret # Pending)
        => call.ret = RemoveSuffix(call.arg, Brand)

(***************************************************************************)
(* Content extractor: RedbookScraper.get_content                           *)
(***************************************************************************)
\* the image URLs of the modelled pages: one with an extension, one without
ImgUrls == {<<"h",":","/","/","i","/","a",".","p">>, <<"h",":","/","/","i","/","b">>}

\* the og:title content values of the modelled pages
PageTitles == {<<"A","!">> \o Brand}

TitleMetas ==
    {[present |-> FALSE, content |-> NoAttr], [present |-> TRUE, content |-> NoAttr]}
        \cup {[present |-> TRUE, content |-> c] : c \in PageTitles}

\* the pages of the model: a page without og:title has no detail-desc div either
Pages ==
    {[title_meta |-> tm,
      detail_desc |-> IF tm.present THEN [present |-> TRUE, text |-> <<" ","b"," ">>]
                      ELSE [present |-> FALSE, text |-> <<>>],
      img_metas |-> ims] :
        tm \in TitleMetas,
        ims \in UNION {[1..k -> ImgUrls \cup {NoAttr}] : k \in 0..MaxImages}}

\* what requests.get and raise_for_status make of the page request
Responses ==
    {[fetch |-> "error", page |-> NoPage]} \cup {[fetch |-> "ok", page |-> pg] : pg \in Pages}

\* get_content falling back to the sentinel title when og:title has no content value
get_content_title_fallback(url, resp) ==
    IF resp.fetch # "ok"
    THEN [exc |-> "RequestException", result |-> NoResult]
    ELSE [exc |-> "none",
          result |->
            [title |-> IF resp.page.title_meta.present
                            /\ resp.page.title_meta.content # NoAttr
                       THEN title_text(resp.page.title_meta.content)
                       ELSE TitleNotFound,
             content |-> IF resp.page.detail_desc.present
                         THEN Strip(resp.page.detail_desc.text)
                         ELSE BodyNotFound,
             images |-> SelectSeq(resp.page.img_metas, LAMBDA m : m # NoAttr),
             url |-> url,
             local_images |-> NoneList]]

\* get_content up to its except clauses: the exception raised inside the try block
\* ("none" when it returns) and the dictionary it returns
get_content(url, resp) ==
    IF resp.fetch # "ok"
    THEN [exc |-> "RequestException", result |-> NoResult]
    ELSE IF resp.page.title_meta.present /\ resp.page.title_meta.content = NoAttr
    THEN [exc |-> "Exception", result |-> NoResult]  \* KeyError: 'content'
    ELSE [exc |-> "none",
          result |->
            [title |-> IF resp.page.title_meta.present
                       THEN title_text(resp.page.title_meta.content)
                       ELSE TitleNotFound,
             content |-> IF resp.page.detail_desc.present
                         THEN Strip(resp.page.detail_desc.text)
                         ELSE BodyNotFound,
             images |-> SelectSeq(resp.page.img_metas, LAMBDA m : m # NoAttr),
             url |-> url,
             local_images |-> NoneList]]

\* the except clauses of the services' get_content, swapped
api_status_swapped(exc) ==
    IF exc = "RequestException" THEN 500 ELSE IF exc = "Exception" THEN 400 ELSE 200

\* the except clauses of the services' get_content: the HTTPException raised
api_status(exc) ==
    IF exc = "RequestException" THEN 400 ELSE IF exc = "Exception" THEN 500 ELSE 200

\* the message the CLI's get_content prints before returning None
failure_kind(exc) ==
    IF exc = "RequestException" THEN "fetch_error" ELSE "parse_error"

\* a test for None alone
no_url_none_only(url) == url = None

\* if not url:
no_url(url) == Falsy(url)

(***************************************************************************)
(* Image persister: download_image, the download loop, info.json           *)
(***************************************************************************)
\* what can happen to one image: it is saved, the GET fails (connection error or
\* error status), or the file cannot be opened or written
Outcomes == {"ok", "http_error", "write_error"}

\* with open(filepath, 'wb') as f: f.write(response.content); return filename
save_image(filename, url, folder_path, by, fs) ==
    [exc |-> "none", ret |-> filename,
     files |-> WriteFile(fs, folder_path, filename, <<url>>, by)]

\* download_image without its try/except: the failure to write escapes
download_image_uncaught(url, folder_path, index, out, by, fs) ==
    IF out = "http_error" THEN [exc |-> "none", ret |-> None, files |-> fs]
    ELSE IF out = "write_error" THEN [exc |-> "OSError", ret |-> None, files |-> fs]
    ELSE save_image(image_filename(url, index), url, folder_path, by, fs)

\* download_image: every exception is caught and turned into None
download_image(url, folder_path, index, out, by, fs) ==
    IF out # "ok" THEN [exc |-> "none", ret |-> None, files |-> fs]
    ELSE save_image(image_filename(url, index), url, folder_path, by, fs)

\* the state of the download loop: the list built so far, the files, the indices
\* download_image was called with, and an exception that ended the loop
LoopStart(fs) == [exc |-> "none", local |-> <<>>, files |-> fs, attempts |-> <<>>]

\* the value the loop appends for a saved image
Entry(folder, filename, full_paths) ==
    IF full_paths THEN path_join(folder, filename) ELSE filename

\* the loop state after download_image returned d for image i
Seen(acc, i, d) == [acc EXCEPT !.attempts = Append(@, i), !.files = d.files]

\* if filename: downloaded_images.append(...)
Appended(acc, i, d, folder, full_paths) ==
    IF Falsy(d.ret) THEN Seen(acc, i, d)
    ELSE [Seen(acc, i, d) EXCEPT !.local = Append(@, Entry(folder, d.ret, full_paths))]

\* the loop with a break at the first image that is not saved
RECURSIVE download_loop_break(_, _, _, _, _, _, _)
RECURSIVE loop_step_break(_, _, _, _, _, _, _, _)
loop_step_break(images, i, folder, full_paths, outs, by, acc, d) ==
    IF Falsy(d.ret) THEN Seen(acc, i, d)
    ELSE download_loop_break(images, i + 1, folder, full_paths, outs, by,
                             Appended(acc, i, d, folder, full_paths))

download_loop_break(images, i, folder, full_paths, outs, by, acc) ==
    IF i > Len(images) THEN acc
    ELSE loop_step_break(images, i, folder, full_paths, outs, by, acc,
            download_image(images[i], folder, i, outs[i], by, acc.files))

RECURSIVE download_loop(_, _, _, _, _, _, _)
RECURSIVE download_loop_renumbered(_, _, _, _, _, _, _)
RECURSIVE loop_step(_, _, _, _, _, _, _, _)
RECURSIVE loop_step_renumbered(_, _, _, _, _, _, _, _)

loop_step_renumbered(images, i, folder, full_paths, outs, by, acc, d) ==
    download_loop_renumbered(images, i + 1, folder, full_paths, outs, by,
                             Appended(acc, i, d, folder, full_paths))

\* the loop numbering the files by the count of images saved so far
download_loop_renumbered(images, i, folder, full_paths, outs, by, acc) ==
    IF i > Len(images) THEN acc
    ELSE loop_step_renumbered(images, i, folder, full_paths, outs, by, acc,
            download_image(images[i], folder, Len(acc.local) + 1, outs[i], by,
                           acc.files))

\* one iteration, once download_image has returned d: an exception that escaped
\* ends the loop
loop_step(images, i, folder, full_paths, outs, by, acc, d) ==
    IF d.exc # "none" THEN [Seen(acc, i, d) EXCEPT !.exc = d.exc]
    ELSE download_loop(images, i + 1, folder, full_paths, outs, by,
                       Appended(acc, i, d, folder, full_paths))

\* for i, img_url in enumerate(result['images'], 1):
\*     filename = download_image(img_url, folder_name, i)
download_loop(images, i, folder, full_paths, outs, by, acc) ==
    IF i > Len(images) THEN acc
    ELSE loop_step(images, i, folder, full_paths, outs, by, acc,
            download_image(images[i], folder, i, outs[i], by, acc.files))

\* json.dump(result, f, ensure_ascii=False, indent=2): the fields of the record
json_dump(result) ==
    <<result.title, result.content, result.images, result.url, result.local_images>>

\* the environment of one persistence step: whether makedirs and the writing of
\* info.json succeed, and what happens to each image
StorageEnvs(n) ==
    {[dir_ok |-> FALSE, outs |-> <<>>, info_ok |-> FALSE]}
        \cup {[dir_ok |-> TRUE, outs |-> o, info_ok |-> k] :
                o \in [1..n -> Outcomes], k \in BOOLEAN}

\* what a persistence step leaves: the run's record, the exception that escapes
\* ("none" if none does) and the file system
Left(run, exc, ds, fs, wr) ==
    [run |-> run, exc |-> exc, dirs |-> ds, files |-> fs, wrote |-> wr]

\* the run has written into its folder
Marked(wr, by, folder) == wr \cup {[by |-> by, dir |-> DirKey(folder)]}

\* the loop has run: result['local_images'] = downloaded_images, then info.json
store(run, result, folder, env, by, ds, wr, loop) ==
    IF loop.exc # "none"
    THEN Left([run EXCEPT !.attempts = loop.attempts], loop.exc, ds, loop.files,
              IF loop.local # <<>> THEN Marked(wr, by, folder) ELSE wr)
    ELSE IF ~env.info_ok
    THEN Left([run EXCEPT !.attempts = loop.attempts, !.faults = @ \cup {"info.json"},
                          !.result = [result EXCEPT !.local_images = loop.local]],
              "OSError", ds, loop.files,
              IF loop.local # <<>> THEN Marked(wr, by, folder) ELSE wr)
    ELSE Left([run EXCEPT !.attempts = loop.attempts, !.info_written = TRUE,
                          !.result = [result EXCEPT !.local_images = loop.local]],
              "none", ds,
              WriteFile(loop.files, folder, InfoJson,
                        json_dump([result EXCEPT !.local_images = loop.local]), by),
              Marked(wr, by, folder))

\* From os.makedirs(folder_name) to the writing of info.json, for run `by` in the
\* file system <<ds, fs>>.
persist(run, result, folder, full_paths, env, by, ds, fs, wr) ==
    IF ~env.dir_ok
    THEN Left([run EXCEPT !.faults = @ \cup {"makedirs"}, !.folder = folder,
                          !.result = result],
              "OSError", ds, fs, wr)
    ELSE store([run EXCEPT !.made = @ \cup {DirKey(folder)}, !.folder = folder,
                           !.outs = env.outs],
               result, folder, env, by, makedirs(ds, folder), wr,
               download_loop(result.images, 1, folder, full_paths, env.outs, by,
                             LoopStart(fs)))

(***************************************************************************)
(* Entry points.                                                           *)
(***************************************************************************)
\* the inputs of the modelled runs: nothing, a share text with a short link and
\* blanks around it, and an https short link (the marker without a pattern match)
PipeTexts ==
    {<<>>,
     <<" ", "u590d", " ">> \o LinkHead \o <<"a", " ">>,
     SecureHead \o <<"a">>}

\* a test of save_images alone
wants_persist_flag_only(save_images, images) == save_images

\* if request.save_images and result['images']:
wants_persist(save_images, images) == save_images /\ images # <<>>

\* f"redbook_content_{timestamp}_{safe_title[:30]}"
api_folder(title, now) ==
    ContentPrefix \o strftime(now) \o <<"_">> \o Truncate(safe_title(title), ApiTitleLen)

\* base_folder = f"redbook_content_{timestamp}"
cli_base_folder(now) == ContentPrefix \o strftime(now)

\* folder_name = os.path.join(base_folder, safe_title[:50])
cli_folder(base_folder, title) ==
    path_join(base_folder, Truncate(safe_title(title), CliTitleLen))

\* a run starts when the one before it has returned; a behaviour has `runs` runs
CanStart(runs) == nreq < runs /\ last = NoRun /\ call = NoCall

\* the run ends: its outcome and what it left in the file system
Finish(run, ds, fs, wr) ==
    /\ last' = run
    /\ dirs' = ds
    /\ files' = fs
    /\ wrote' = wr
    /\ nreq' = nreq + 1
    /\ UNCHANGED <<clock, call>>

\* how a service answers once persist is over
Answered(p) ==
    IF p.exc = "none" THEN [p.run EXCEPT !.outcome = "ok", !.status = 200]
    ELSE [p.run EXCEPT !.outcome = "storage_error", !.status = 500]

\* the persistence step is over: the answer
persisted(p) == Finish(Answered(p), p.dirs, p.files, p.wrote)

\* the same for the CLI, which has no status code
cli_persisted(p) == Finish([Answered(p) EXCEPT !.status = 0], p.dirs, p.files, p.wrote)

\* the services' handler from "if request.save_images and result['images']" on
api_fetched(run, got) ==
    IF got.exc # "none"
    THEN Finish([run EXCEPT !.outcome = failure_kind(got.exc),
                            !.status = api_status(got.exc)],
                dirs, files, wrote)
    ELSE IF ~wants_persist(run.save_images, got.result.images)
    THEN Finish([run EXCEPT !.outcome = "ok", !.status = 200, !.result = got.result],
                dirs, files, wrote)
    ELSE \E env \in StorageEnvs(Len(got.result.images)) :
            persisted(persist(run, got.result, api_folder(got.result.title, clock),
                              TRUE, env, nreq + 1, dirs, files, wrote))

\* the services' handler from "if not url" on
api_resolved(run, url) ==
    IF no_url(url)
    THEN Finish([run EXCEPT !.outcome = "not_found", !.status = 400],
                dirs, files, wrote)
    ELSE \E resp \in Responses :
            api_fetched([run EXCEPT !.fetched = TRUE, !.fetch = resp.fetch,
                                       !.page = resp.page],
                        get_content(url, resp))

\* POST /api/extract of redbook_api.py and of test_api.py (the same handler)
extract_content(variant, runs) ==
    /\ CanStart(runs)
    /\ \E text \in PipeTexts, save \in BOOLEAN :
        api_resolved([NoRun EXCEPT !.variant = variant, !.text = text,
                                      !.save_images = save],
                     resolve(text))

\* api/index.py from "result = scraper.get_content(url)" on
index_fetched(run, got) ==
    IF got.exc # "none"
    THEN Finish([run EXCEPT !.outcome = failure_kind(got.exc),
                            !.status = api_status(got.exc)],
                dirs, files, wrote)
    ELSE Finish([run EXCEPT !.outcome = "ok", !.status = 200, !.result = got.result],
                dirs, files, wrote)

\* api/index.py from "if not url" on
index_resolved(run, url) ==
    IF no_url(url)
    THEN Finish([run EXCEPT !.outcome = "not_found", !.status = 400],
                dirs, files, wrote)
    ELSE \E resp \in Responses :
            index_fetched([run EXCEPT !.fetched = TRUE, !.fetch = resp.fetch,
                                      !.page = resp.page],
                          get_content(url, resp))

\* POST /api/extract of api/index.py: save_images is accepted and not used
index_extract_content(runs) ==
    /\ CanStart(runs)
    /\ \E text \in PipeTexts, save \in BOOLEAN :
        index_resolved([NoRun EXCEPT !.variant = "index", !.text = text,
                                     !.save_images = save],
                       resolve(text))

\* process_url once get_content has returned; ds holds the base folder
process_url(run, got, base_folder, ds) ==
    IF got.exc # "none"
    THEN Finish([run EXCEPT !.outcome = failure_kind(got.exc)], ds, files, wrote)
    ELSE \E env \in StorageEnvs(Len(got.result.images)) :
            cli_persisted(persist(run, got.result,
                                  cli_folder(base_folder, got.result.title),
                                  FALSE, env, nreq + 1, ds, files, wrote))

\* main() from "if not url" on
cli_resolved(run, url, base_folder) ==
    IF no_url(url)
    THEN Finish([run EXCEPT !.outcome = "not_found"], dirs, files, wrote)
    ELSE \E base_ok \in BOOLEAN :
        IF ~base_ok
        THEN Finish([run EXCEPT !.outcome = "storage_error",
                                !.faults = {"makedirs_base"}],
                    dirs, files, wrote)
        ELSE \E resp \in Responses :
                process_url([run EXCEPT !.fetched = TRUE, !.fetch = resp.fetch,
                                           !.page = resp.page,
                                           !.made = {DirKey(base_folder)}],
                            get_content(url, resp), base_folder,
                            makedirs(dirs, base_folder))

\* main() of redbook_scraper.py; it always downloads
main(runs) ==
    /\ CanStart(runs)
    /\ \E input \in PipeTexts :
        cli_resolved([NoRun EXCEPT !.variant = "cli", !.text = Strip(input),
                                      !.save_images = TRUE],
                     resolve(Strip(input)), cli_base_folder(clock))

\* the entry points of a single run in an empty working directory
ApiExtract == extract_content("redbook_api", 1)

TestApiExtract == extract_content("test_api", 1)

IndexExtract == index_extract_content(1)

CliMain == main(1)

\* the entry points of MaxRuns runs, one after another, in one working directory
ApiExtractAgain == extract_content("redbook_api", MaxRuns)

TestApiExtractAgain == extract_content("test_api", MaxRuns)

IndexExtractAgain == index_extract_content(MaxRuns)

CliMainAgain == main(MaxRuns)

\* the response has been sent, or the process has exited
Return ==
    /\ last # NoRun
    /\ last' = NoRun
    /\ UNCHANGED <<clock, dirs, files, wrote, nreq, call>>

\* time passes
Tick ==
    /\ clock < MaxClock
    /\ clock' = clock + 1
    /\ UNCHANGED <<dirs, files, wrote, nreq, last, call>>

Init ==
    /\ Quiet
    /\ call = NoCall

Next == CliMain \/ ApiExtract \/ TestApiExtract \/ IndexExtract \/ Return \/ Tick

\* one run of one entry point, in an empty working directory
Spec == Init /\ [][Next]_vars

NextRuns ==
    CliMainAgain \/ ApiExtractAgain \/ TestApiExtractAgain \/ IndexExtractAgain
        \/ Return \/ Tick

\* MaxRuns runs, one after another, in the same working directory
SpecRuns == Init /\ [][NextRuns]_vars

(***************************************************************************)
(* What the latest run was given and what it did.                          *)
(***************************************************************************)
Ran == last.variant # "none"

IsService == last.variant \in {"redbook_api", "test_api", "index"}

\* the og:image content values of the page served, in document order
PageImages == SelectSeq(last.page.img_metas, LAMBDA m : m # NoAttr)

\* the page was fetched, and its og:title (if any) has a content value
Parsable ==
    /\ last.fetch = "ok"
    /\ ~(last.page.title_meta.present /\ last.page.title_meta.content = NoAttr)

\* the run created its folder and entered the download loop
LoopRan ==
    /\ Ran
    /\ last.folder # None
    /\ DirKey(last.folder) \in last.made
    /\ Len(last.outs) = Len(PageImages)

\* the positions of the images that were saved, and of those that were not
SavedAt == {i \in 1..Len(last.outs) : last.outs[i] = "ok"}

FailedAt == {i \in 1..Len(last.outs) : last.outs[i] # "ok"}

\* the files the latest run wrote
OwnFiles == {f \in files : f.by = nreq}

OwnInfoFiles == {f \in OwnFiles : f.name = InfoJson}

(***************************************************************************)
(* C1: one failed image download.                                          *)
(***************************************************************************)
\* C1: when exactly one of the N >= 1 images fails to download, at whatever position,
\* and info.json can be written, the loop has called download_image for every image
\* in order, local_images has N-1 entries and info.json holds the record.
C1_OneFailedImage ==
    (LoopRan /\ Len(PageImages) >= 1 /\ Cardinality(FailedAt) = 1
        /\ "info.json" \notin last.faults)
        => /\ last.attempts = [i \in 1..Len(PageImages) |-> i]
           /\ last.result.local_images # NoneList
           /\ Len(last.result.local_images) = Len(PageImages) - 1
           /\ last.info_written
           /\ \E f \in OwnInfoFiles :
                f.dir = DirKey(last.folder) /\ f.data = json_dump(last.result)

\* C1 witness: the first of several images failed, the rest were saved and
\* info.json was written
C1_Witness ==
    /\ LoopRan
    /\ Len(PageImages) >= 2
    /\ FailedAt = {1}
    /\ Len(last.result.local_images) = Len(PageImages) - 1
    /\ OwnInfoFiles # {}

(***************************************************************************)
(* C2: a failed page fetch.                                                *)
(***************************************************************************)
\* C2 as claimed: when the page fetch fails, the run ends in the fetch-failure
\* outcome and has created no directory, whichever entry point ran.
C2_NoDirectoryOnFetchFailure ==
    (Ran /\ last.fetch = "error")
        => last.outcome = "fetch_error" /\ last.made = {} /\ dirs = {}

(***************************************************************************)
(* C3: one directory per run.                                              *)
(***************************************************************************)
\* C3 as claimed: no two runs write into the same directory.
C3_OwnDirectory == \A a, b \in wrote : a.dir = b.dir => a.by = b.by

(***************************************************************************)
(* C5: no link found.                                                      *)
(***************************************************************************)
\* C5: when the input is empty, or holds the marker while nothing in it matches the
\* short-link pattern, the run ends as "not found" before any fetch and before any
\* directory is created; the services answer 400.
C5_NotFound ==
    (Ran /\ (last.text = <<>>
                \/ (Contains(last.text, Marker) /\ extract_url(last.text) = None)))
        => /\ last.outcome = "not_found"
           /\ ~last.fetched
           /\ last.fetch = "none"
           /\ last.made = {}
           /\ OwnFiles = {}
           /\ IsService => last.status = 400

\* C5 witness: an https short link was given and no link was found
C5_Witness ==
    /\ Ran
    /\ Contains(last.text, Marker)
    /\ last.outcome = "not_found"

(***************************************************************************)
(* C6: the status codes of POST /api/extract.                              *)
(***************************************************************************)
\* C6: a service answers 400 when no URL is resolved, 400 when the page fetch fails
\* and 500 when parsing fails; it answers 200 only when all three succeeded.
C6_StatusCodes ==
    (Ran /\ IsService)
        => /\ Falsy(resolve(last.text)) => last.status = 400
           /\ last.fetch = "error" => last.status = 400
           /\ (last.fetch = "ok" /\ ~Parsable) => last.status = 500
           /\ last.status = 200
                => ~Falsy(resolve(last.text)) /\ last.fetch = "ok" /\ Parsable

\* C6 witness: a page whose og:title has no content value was answered with 500
C6_Witness ==
    /\ Ran
    /\ IsService
    /\ last.fetch = "ok"
    /\ ~Parsable
    /\ last.status = 500

(***************************************************************************)
(* C7: what makes persistence fail.                                        *)
(***************************************************************************)
\* C7 as claimed: once the page is fetched and parsed, the run fails only if the
\* creation of its directory failed.
C7_OnlyMakedirsFails ==
    (Ran /\ Parsable /\ last.outcome # "ok") => "makedirs" \in last.faults

\* C7 amended: once the page is fetched and parsed, the run fails exactly when the
\* creation of its directory or the writing of info.json fails; no failure of an
\* image (HTTP error, or the image file cannot be opened or written) makes it fail
\* or keeps the record from being returned.
C7_OnlyStorageFails ==
    (Ran /\ Parsable)
        => /\ last.outcome \in {"ok", "storage_error"}
           /\ last.outcome = "ok" <=> last.faults \cap {"makedirs", "info.json"} = {}
           /\ last.outcome = "ok"
                => /\ last.result # NoResult
                   /\ IsService => last.status = 200

\* C7 witness: one image failed on HTTP, another on the file, and the run succeeded
C7_Witness ==
    /\ LoopRan
    /\ \E i, j \in 1..Len(last.outs) :
            last.outs[i] = "http_error" /\ last.outs[j] = "write_error"
    /\ last.outcome = "ok"
    /\ last.result.local_images = <<>>

(***************************************************************************)
(* C8: what a successful run leaves on disk.                               *)
(***************************************************************************)
\* C8 as claimed: every successful run for which download was requested leaves
\* exactly one info.json, holding the full record including local_images.
C8_AlwaysOneInfoJson ==
    (Ran /\ last.outcome = "ok" /\ last.save_images)
        => /\ Cardinality(OwnInfoFiles) = 1
           /\ last.result.local_images # NoneList
           /\ \A f \in OwnInfoFiles : f.data = json_dump(last.result)

\* the entry points that persist: the CLI always; redbook_api.py and test_api.py
\* when save_images is set and the page has at least one image URL
Persists ==
    \/ last.variant = "cli"
    \/ /\ last.variant \in {"redbook_api", "test_api"}
       /\ last.save_images
       /\ PageImages # <<>>

\* C8 amended: a successful run of the CLI (also with zero image URLs), and a
\* successful run of redbook_api.py or test_api.py with save_images set and at least
\* one image URL, leaves exactly one info.json, in the directory it created, holding
\* the full record including local_images; a successful run of api/index.py, or of
\* the two other services with zero image URLs or without save_images, creates no
\* directory, writes no file and returns no local_images.
C8_OneInfoJsonWhenPersisting ==
    (Ran /\ last.outcome = "ok")
        => IF Persists
           THEN /\ Cardinality(OwnInfoFiles) = 1
                /\ last.result.local_images # NoneList
                /\ \A f \in OwnInfoFiles :
                        /\ f.data = json_dump(last.result)
                        /\ f.dir = DirKey(last.folder)
                        /\ f.dir \in last.made
                        /\ f.dir \in dirs
                /\ IsService => Cardinality(last.made) = 1
           ELSE /\ last.made = {}
                /\ OwnFiles = {}
                /\ last.result.local_images = NoneList

\* C8 witness: the CLI wrote info.json for a page without image URLs
C8_Witness ==
    /\ Ran
    /\ last.variant = "cli"
    /\ last.outcome = "ok"
    /\ PageImages = <<>>
    /\ Cardinality(OwnInfoFiles) = 1
    /\ last.result.local_images = <<>>

(***************************************************************************)
(* C10: local_images and the file names.                                   *)
(***************************************************************************)
\* image_<i><ext> for the image at position i of the page
NameAt(i) == <<"i", "m", "a", "g", "e", "_">> \o IntToStr(i) \o image_ext(PageImages[i])

\* the entry of local_images for the image at position i
EntryAt(i) ==
    IF last.variant = "cli" THEN NameAt(i) ELSE last.folder \o <<"/">> \o NameAt(i)

\* the elements of a set of numbers in increasing order
Ascending(S) ==
    CHOOSE q \in [1..Cardinality(S) -> S] :
        \A a, b \in 1..Cardinality(S) : a < b => q[a] < q[b]

\* C10: after the download loop local_images holds, in the order of the image list,
\* one entry per saved image and none for a failed one; the image at position i is
\* in the file image_<i><ext>; the run wrote no other image file, and no two
\* positions share a file name.
C10_LocalImagesAndNames ==
    LoopRan
        => /\ last.result.local_images =
                [k \in 1..Cardinality(SavedAt) |-> EntryAt(Ascending(SavedAt)[k])]
           /\ \A i \in SavedAt :
                \E f \in OwnFiles :
                    /\ f.dir = DirKey(last.folder)
                    /\ f.name = NameAt(i)
                    /\ f.data = <<PageImages[i]>>
           /\ Cardinality(OwnFiles \ OwnInfoFiles) = Cardinality(SavedAt)
           /\ \A i, j \in 1..Len(PageImages) : i # j => NameAt(i) # NameAt(j)

\* C10 witness: the first image failed and the second is in a file numbered 2
C10_Witness ==
    /\ LoopRan
    /\ Len(PageImages) >= 2
    /\ FailedAt = {1}
    /\ \E f \in OwnFiles : f.name = NameAt(2)
    /\ \A f \in OwnFiles : f.name # NameAt(1)

(***************************************************************************)
(* C11: a meta element without a content value.                            *)
(***************************************************************************)
\* the page served has an og:title element that carries no content attribute
TitleWithoutContent ==
    last.page.title_meta.present /\ last.page.title_meta.content = NoAttr

\* the page served has an og:image element that carries no content attribute
ImageWithoutContent ==
    \E i \in 1..Len(last.page.img_metas) : last.page.img_metas[i] = NoAttr

\* C11: when the fetched page's og:title has no content value the run does not fall
\* back to the sentinel title: it ends as a parse error with no record (the services
\* answer 500), download_image is never called and the run writes no image and no
\* info.json. When an og:image has no content value (and og:title is absent or has
\* one) the element is skipped: images holds the other elements' values in order,
\* and unless the creation of the folder or the writing of info.json fails the run
\* succeeds (the services answer 200).
C11_MissingContent ==
    (Ran /\ last.fetch = "ok")
        => /\ TitleWithoutContent
                => /\ last.outcome = "parse_error"
                   /\ last.result = NoResult
                   /\ IsService => last.status = 500
                   /\ last.attempts = <<>>
                   /\ last.folder = None
                   /\ ~last.info_written
                   /\ OwnFiles = {}
           /\ (ImageWithoutContent /\ ~TitleWithoutContent)
                => /\ last.outcome \in {"ok", "storage_error"}
                   /\ last.outcome = "ok" <=> last.faults = {}
                   /\ last.result # NoResult
                   /\ last.result.images = PageImages
                   /\ Len(last.result.images) < Len(last.page.img_metas)
                   /\ (IsService /\ last.outcome = "ok") => last.status = 200

\* C11 witness: the CLI was served a page whose og:title has no content value and
\* whose og:image elements all have one; it ended as a parse error with nothing
\* downloaded
C11_Witness ==
    /\ Ran
    /\ last.variant = "cli"
    /\ last.fetch = "ok"
    /\ TitleWithoutContent
    /\ ~ImageWithoutContent
    /\ Len(last.page.img_metas) >= 1
    /\ last.outcome = "parse_error"
    /\ last.attempts = <<>>

====
